---- MODULE Spec2Model ----
(***************************************************************************)
(* Claim write handler (src/lambda/claims_actions.py) and claim read       *)
(* handler (src/lambda/get_claim.py) over the versioned claim table, and   *)
(* the retry loop of the routing handler (src/lambda/index.py).  Each      *)
(* invocation of a claim handler is a process that walks through its       *)
(* store calls (query, update_item, put_item); the table and the wall      *)
(* clock are the only state shared between invocations.                    *)
(*                                                                         *)
(* Python values are modelled as follows.  A dict is a function whose      *)
(* domain is the set of keys that are present.  A list is a sequence.      *)
(* Scalars are atoms (strings); the atoms below stand for the scalars      *)
(* that are not str.                                                       *)
(***************************************************************************)
EXTENDS Integers, Sequences, FiniteSets, TLC

VARIABLES store, now, pc, data, existing_claim, timestamp, item, response, writes,
          event, calls, all_versions, reads, repeat_of,
          properties, extracted,
          route_pc, route_event, retry_attempt, response_text, total_delay,
          attempts, waits, route_response, routes

\* the state of the routing handler
routevars == <<route_pc, route_event, retry_attempt, response_text, total_delay,
               attempts, waits, route_response, routes>>

\* the state of the claim handlers and the table
claimvars == <<store, now, pc, data, existing_claim, timestamp, item, response,
               writes, event, calls, all_versions, reads, repeat_of>>

\* the state of the adapter of the write handler
adaptvars == <<properties, extracted>>

vars == <<claimvars, routevars, adaptvars>>

-----------------------------------------------------------------------------
(* Bounds *)

\* invocations started, all writers together, under Spec
MaxWrites == 3
\* invocations started by the single writer under SpecSeq and SpecRead
MaxSeqWrites == 2
\* invocations of the read handler under SpecRead
MaxReads == 2
\* invocations of the routing handler under SpecRoute
MaxRoutes == 2
\* properties of an event under SpecAdapt
MaxProps == 2
\* invocations started by the single writer under SpecRepeat
MaxRepeatWrites == 3

Writers == {"w1", "w2"}
SeqWriter == "w1"
Readers == {"r1"}
Reader == "r1"
Procs == Writers \cup Readers

-----------------------------------------------------------------------------
(* Python values *)

None == [none |-> TRUE]
NoResponse == [none |-> TRUE, of |-> "response"]
EmptyDict == [k \in {} |-> k]

JsonNull == "<null>"
PyFalse == "<False>"
PyTrue == "<True>"
PyZero == "<0>"
\* a float as json.loads yields it, and the Decimal that Decimal(str(v)) makes of it
Float15 == "<float 1.5>"
Dec15 == "<Decimal 1.5>"

\* bool(v) of a scalar
Truthy(v) == v \notin {"", JsonNull, PyFalse, PyZero}

\* d.get(k, default)
Get(d, k, default) == IF k \in DOMAIN d THEN d[k] ELSE default

\* the distinct elements of a list
Elems(l) == {l[i] : i \in DOMAIN l}

\* list(set(l)): the distinct elements, in an order the hash seed decides
ListOfSet(S) == {l \in [1..Cardinality(S) -> S] : Elems(l) = S}

-----------------------------------------------------------------------------
(* The merge of lines 210-301 *)

static_fields == {"policy_number", "customer_id", "coverage_amount", "deductible",
                  "active_policy", "incident_date", "incident_location",
                  "estimated_cost_from_image", "total_repair_cost", "claim_type"}

convert_to_decimal(details) ==
    [k \in DOMAIN details |-> IF details[k] = Float15 THEN Dec15 ELSE details[k]]

\* merged_details with the static fields overwritten like the dynamic ones
merged_details_overwrite(existing, d) ==
    LET existing_details == convert_to_decimal(Get(existing, "claim_details", EmptyDict))
        new_details == convert_to_decimal(Get(d, "claim_details", EmptyDict))
        adopted == {k \in DOMAIN new_details : Truthy(new_details[k])}
    IN  [k \in DOMAIN existing_details \cup adopted |->
            IF k \in adopted THEN new_details[k] ELSE existing_details[k]]

\* lines 246-260
merged_details(existing, d) ==
    LET existing_details == convert_to_decimal(Get(existing, "claim_details", EmptyDict))
        new_details == convert_to_decimal(Get(d, "claim_details", EmptyDict))
        adopted == {k \in DOMAIN new_details :
                       /\ Truthy(new_details[k])
                       /\ \/ k \notin static_fields
                          \/ ~Truthy(Get(existing_details, k, JsonNull))}
    IN  [k \in DOMAIN existing_details \cup adopted |->
            IF k \in adopted THEN new_details[k] ELSE existing_details[k]]

\* merged_vehicle as the vehicle_info of the update alone
merged_vehicle_replaced(existing, d) == Get(d, "vehicle_info", EmptyDict)

\* lines 263-270
merged_vehicle(existing, d) ==
    LET existing_vehicle == Get(existing, "vehicle_info", EmptyDict)
        new_vehicle == Get(d, "vehicle_info", EmptyDict)
        adopted == {k \in DOMAIN new_vehicle :
                       /\ Truthy(new_vehicle[k])
                       /\ ~Truthy(Get(existing_vehicle, k, JsonNull))}
    IN  [k \in DOMAIN existing_vehicle \cup adopted |->
            IF k \in adopted THEN new_vehicle[k] ELSE existing_vehicle[k]]

\* merged_docs without the set(): the two lists concatenated
merged_docs_concat(existing, d) ==
    LET existing_docs == Get(Get(existing, "documents", EmptyDict),
                             "current_uploaded_documents", <<>>)
        new_docs == Get(Get(d, "documents", EmptyDict),
                        "current_uploaded_documents", <<>>)
    IN  {existing_docs \o new_docs}

\* lines 212-214: the lists merged_docs can be
merged_docs(existing, d) ==
    LET existing_docs == Get(Get(existing, "documents", EmptyDict),
                             "current_uploaded_documents", <<>>)
        new_docs == Get(Get(d, "documents", EmptyDict),
                        "current_uploaded_documents", <<>>)
    IN  ListOfSet(Elems(existing_docs \o new_docs))

\* status_of reading claim_status from the update instead of its version_summary
status_of_top_level(d) == Get(d, "claim_status", "PENDING")

\* lines 277 and 295
status_of(d) == Get(Get(d, "version_summary", EmptyDict), "claim_status", "PENDING")

\* lines 273-288
MergedItem(existing, d, ts, docs) ==
    [claim_id |-> d["claim_id"],
     version |-> ts,
     is_latest |-> "true",
     status |-> status_of(d),
     created_at |-> ts,
     claim_details |-> merged_details(existing, d),
     vehicle_info |-> merged_vehicle(existing, d),
     documents |->
        [current_uploaded_documents |-> docs,
         required_documents |->
            Get(Get(d, "documents", EmptyDict), "required_documents", <<>>)],
     version_summary |-> Get(d, "version_summary", EmptyDict)]

\* NewItem as a merge into an empty existing version
NewItem_merged(d, ts) ==
    MergedItem(EmptyDict, d, ts, CHOOSE docs \in merged_docs(EmptyDict, d) : TRUE)

\* lines 291-301
NewItem(d, ts) ==
    [claim_id |-> d["claim_id"],
     version |-> ts,
     is_latest |-> "true",
     status |-> status_of(d),
     created_at |-> ts,
     claim_details |-> Get(d, "claim_details", EmptyDict),
     vehicle_info |-> Get(d, "vehicle_info", EmptyDict),
     documents |-> Get(d, "documents", EmptyDict),
     version_summary |-> Get(d, "version_summary", EmptyDict)]

-----------------------------------------------------------------------------
(* The table *)

\* the rows of a claim
Versions(claim_id) == {store[k] : k \in {j \in DOMAIN store : j[1] = claim_id}}

\* the rows the query of lines 179-186 matches
LatestRows(claim_id) == {r \in Versions(claim_id) : r.is_latest = "true"}

\* response['Items'][0] if response.get('Items') else None; a query returns
\* its items in ascending order of the sort key
FirstItem(rows) ==
    IF rows = {} THEN None
    ELSE CHOOSE r \in rows : \A q \in rows : r.version <= q.version

\* boto3 refuses to serialize a float
HasFloat(it) ==
    \/ \E k \in DOMAIN it.claim_details : it.claim_details[k] = Float15
    \/ \E k \in DOMAIN it.vehicle_info : it.vehicle_info[k] = Float15

-----------------------------------------------------------------------------
(* Responses *)

\* lines 326-339 (claims_actions.py) and 130-143 (get_claim.py): the fields
\* of the success envelope that come from the event
Echo(ev) ==
    [actionGroup |-> ev["actionGroup"],
     apiPath |-> ev["apiPath"],
     httpMethod |-> ev["httpMethod"],
     sessionAttributes |-> Get(ev, "sessionAttributes", EmptyDict),
     promptSessionAttributes |-> Get(ev, "promptSessionAttributes", EmptyDict)]

\* lines 308-339: the success envelope of a write, body and envelope in one record
SuccessResponse(ev, it) ==
    [httpStatusCode |-> 200, claim_id |-> it.claim_id, version |-> it.version,
     status |-> it.status] @@ Echo(ev)

\* lines 348-360 (claims_actions.py) and 152-164 (get_claim.py)
ErrorResponse(msg) == [httpStatusCode |-> 500, error |-> msg]

-----------------------------------------------------------------------------
(* Incoming events and updates *)

ClaimId == "CL-1"
UnknownClaimId == "CL-404"

\* what the agent puts around the properties
EventHeaders ==
    { [actionGroup |-> "claims", apiPath |-> "/claim", httpMethod |-> "POST"],
      [actionGroup |-> "claims", apiPath |-> "/claim", httpMethod |-> "POST",
       sessionAttributes |-> [customer |-> "C-7"],
       promptSessionAttributes |-> [turn |-> "1"]] }

\* a section that arrived as a list or a str instead of a dict
PyList == [pytype |-> "list"]
PyStr == [pytype |-> "str"]

\* whether x has .get and .items
IsDict(x) == "pytype" \notin DOMAIN x

Update(fields) == ("claim_id" :> ClaimId) @@ fields

\* the updates concurrent writers submit
RaceData ==
    { Update(("claim_details" :> ("policy_number" :> "P1"))
             @@ ("documents" :> ("current_uploaded_documents" :> <<"a.pdf">>))),
      Update(("claim_details" :> ("policy_number" :> "P2"))
             @@ ("documents" :> ("current_uploaded_documents" :> <<"b.png">>))),
      Update(EmptyDict) }

DetailUpdates ==
    { Update("claim_details" :> cd) :
        cd \in { EmptyDict,
                 "policy_number" :> "P1",
                 "policy_number" :> "P2",
                 "policy_number" :> "",
                 "active_policy" :> PyFalse,
                 "active_policy" :> PyTrue,
                 "coverage_amount" :> Float15,
                 "reported_within_thirty_days" :> PyTrue,
                 "reported_within_thirty_days" :> PyFalse } }

VehicleUpdates ==
    { Update("vehicle_info" :> vi) :
        vi \in { "vin" :> "V1", "vin" :> "V2", "vin" :> "", "vin" :> Float15 } }

DocumentUpdates ==
    { Update("documents" :> docs) :
        docs \in { EmptyDict,
                   "current_uploaded_documents" :> <<"a.pdf">>,
                   "current_uploaded_documents" :> <<"a.pdf", "b.png">>,
                   "current_uploaded_documents" :> <<"b.png", "b.png">>,
                   ("current_uploaded_documents" :> <<>>)
                      @@ ("required_documents" :> <<"police_report">>) } }

SummaryUpdates ==
    { Update("version_summary" :> vs) :
        vs \in { EmptyDict,
                 "claim_status" :> "PENDING",
                 "claim_status" :> "APPROVED",
                 "claim_status" :> "DENIED",
                 "claim_status" :> "UNDER_REVIEW" } }

\* updates that carry every section at once
FullUpdates ==
    { Update(("claim_details" :> (("policy_number" :> "P1")
                                   @@ ("reported_within_thirty_days" :> PyTrue)))
             @@ ("vehicle_info" :> ("vin" :> "V1"))
             @@ ("documents" :> (("current_uploaded_documents" :> <<"a.pdf">>)
                                  @@ ("required_documents" :> <<"police_report">>)))
             @@ ("version_summary" :> ("claim_status" :> "PENDING"))),
      Update(("claim_details" :> (("policy_number" :> "P2")
                                   @@ ("coverage_amount" :> Float15)
                                   @@ ("reported_within_thirty_days" :> PyFalse)))
             @@ ("vehicle_info" :> ("vin" :> "V2"))
             @@ ("documents" :> ("current_uploaded_documents" :> <<"b.png", "a.pdf">>))
             @@ ("version_summary" :> ("claim_status" :> "APPROVED"))) }

\* updates with a section that is not a dict
MalformedUpdates ==
    { Update("documents" :> PyList),
      Update("version_summary" :> PyStr),
      ("claim_id" :> "") }

\* the updates the single writer submits; the last one has no claim_id
SeqData ==
    DetailUpdates \cup VehicleUpdates \cup DocumentUpdates \cup SummaryUpdates
        \cup FullUpdates \cup MalformedUpdates \cup { EmptyDict }

\* the properties get_claim is called with
ReadData ==
    { "claim_id" :> ClaimId, "claim_id" :> UnknownClaimId, "claim_id" :> "", EmptyDict }

-----------------------------------------------------------------------------
(* handler() of index.py: the retry loop around invoke_agent *)

max_retries == 2
\* seconds
base_delay == 5
max_delay == 60

Min(a, b) == IF a < b THEN a ELSE b

\* the S3 events the handler is invoked with; the last has no Records
RouteEvents == {"claims/photo.jpg", "claims/form.pdf", "<no Records>"}

\* str(e) of the exceptions invoke_agent and its stream raise
AgentErrors ==
    { "ThrottlingException", "Rate exceeded", "Too Many Requests",
      "Service Unavailable", "Read timed out", "AccessDeniedException" }

\* lines 239-240: whether the lower-cased message contains a keyword
is_throttling(error_str) ==
    error_str \in { "ThrottlingException", "Rate exceeded", "Too Many Requests",
                    "Service Unavailable" }

\* random.uniform(0.1, 0.3), in hundredths
Jitter == 10..30

\* lines 243-257: total_delay in hundredths of a second
Delay(attempt, throttling, jitter) ==
    IF throttling
      THEN IF attempt = 0 THEN 30 * 100 ELSE 60 * 100
      ELSE LET delay == Min(base_delay * (2 ^ attempt), max_delay)
           IN  delay * 100 + jitter * delay

\* ShouldSleep that waits after the last attempt too
ShouldSleep_always(attempt) == attempt < max_retries

\* line 242
ShouldSleep(attempt) == attempt < max_retries - 1

\* lines 267-274
RouteOk(key, text) == [statusCode |-> 200, file |-> key, agent_response |-> text]

\* lines 277-286
RouteError(msg) == [statusCode |-> 500, error |-> msg]

InitRoute ==
    /\ route_pc = "idle"
    /\ route_event = "claims/form.pdf"
    /\ retry_attempt = 0
    /\ response_text = ""
    /\ total_delay = 0
    /\ attempts = <<>>
    /\ waits = <<>>
    /\ route_response = NoResponse
    /\ routes = 0

-----------------------------------------------------------------------------
(* extract_properties() and parse_agent_object() of claims_actions.py *)

\* Python values that are not a dict: a dict is a function from its keys
PyValue(type, value) == [pytype |-> type, value |-> value]
PyItems(items) == [pytype |-> "list", items |-> items]
PyNone == [pytype |-> "NoneType"]

\* raised by json.loads
JSONDecodeError == [raised |-> "JSONDecodeError"]

\* the value strings of the properties: JSON documents of every kind, the
\* agent's key=value and bare-list formats, and text that is neither
ValueStrings ==
    { "{\"policy_number\": \"P1\"}",
      "{policy_number=P1, active_policy=true}",
      "[\"a.pdf\", \"b.png\"]",
      "[a.pdf, b.png]",
      "",
      "5",
      "null",
      "\"total loss\"",
      "true",
      "True" }

\* json.loads(value_str.strip()) of lines 16 and 130
json_loads(value_str) ==
    CASE value_str = "{\"policy_number\": \"P1\"}" -> ("policy_number" :> "P1")
      [] value_str = "[\"a.pdf\", \"b.png\"]" -> PyItems(<<"a.pdf", "b.png">>)
      [] value_str = "5" -> PyValue("int", "5")
      [] value_str = "null" -> PyNone
      [] value_str = "\"total loss\"" -> PyValue("str", "total loss")
      [] value_str = "true" -> PyValue("bool", "true")
      [] OTHER -> JSONDecodeError

\* lines 19-102: the key=value parser.  Text without '=' leaves the loop at
\* line 30 with the empty result.
agent_format(value_str) ==
    CASE value_str = "{policy_number=P1, active_policy=true}" ->
            ("policy_number" :> "P1") @@ ("active_policy" :> PyTrue)
      [] OTHER -> EmptyDict

\* lines 12-107
parse_agent_object(value_str) ==
    IF json_loads(value_str) # JSONDecodeError
      THEN json_loads(value_str)
      ELSE agent_format(value_str)

\* lines 133-146: the bare-list parser
agent_list(value) ==
    CASE value = "[a.pdf, b.png]" -> PyItems(<<"a.pdf", "b.png">>)
      [] OTHER -> PyItems(<<>>)

\* lines 148-152: Decimal(str(value)), or Decimal('0') when that raises
to_decimal(value) ==
    IF value = "5" THEN PyValue("Decimal", "5") ELSE PyValue("Decimal", "0")

PropertyTypes == {"object", "array", "number", "boolean", "string"}

\* lines 122-154: the value of one property
property_value(prop) ==
    CASE prop.type = "object" -> parse_agent_object(prop.value)
      [] prop.type = "array" ->
            IF json_loads(prop.value) # JSONDecodeError
              THEN json_loads(prop.value)
              ELSE agent_list(prop.value)
      [] prop.type = "number" -> to_decimal(prop.value)
      [] OTHER -> PyValue("str", prop.value)

\* lines 109-157
RECURSIVE extract_properties(_)
extract_properties(props) ==
    IF props = <<>> THEN EmptyDict
    ELSE LET last == props[Len(props)]
         IN  (last.name :> property_value(last))
                @@ extract_properties(SubSeq(props, 1, Len(props) - 1))

\* the properties of an event
Properties ==
    [name : {"claim_details", "documents"}, type : PropertyTypes, value : ValueStrings]

PropertyLists == UNION {[1..n -> Properties] : n \in 1..MaxProps}

InitAdapt ==
    /\ properties = <<>>
    /\ extracted = EmptyDict

-----------------------------------------------------------------------------
(* handler() of claims_actions.py, one action per store call *)

Init ==
    /\ store = EmptyDict
    /\ now = 0
    /\ pc = [w \in Procs |-> "idle"]
    /\ data = [w \in Procs |-> EmptyDict]
    /\ existing_claim = [w \in Procs |-> None]
    /\ timestamp = [w \in Procs |-> 0]
    /\ item = [w \in Procs |-> None]
    /\ response = [w \in Procs |-> NoResponse]
    /\ writes = 0
    /\ event = [w \in Procs |-> EmptyDict]
    /\ calls = [w \in Procs |-> <<>>]
    /\ all_versions = [w \in Procs |-> <<>>]
    /\ reads = 0
    /\ repeat_of = [w \in Procs |-> 0]
    /\ InitRoute
    /\ InitAdapt

\* Caught without the except clause: the exception leaves the handler
Caught_escapes(p, msg) ==
    /\ response' = response
    /\ pc' = [pc EXCEPT ![p] = "escaped"]

\* the except clause of lines 346-361 (claims_actions.py) and 150-165
\* (get_claim.py): the exception becomes the 500 envelope, which is returned
Caught(p, msg) ==
    /\ response' = [response EXCEPT ![p] = ErrorResponse(msg)]
    /\ pc' = [pc EXCEPT ![p] = "idle"]

\* claim_id_missing that tests for None only
claim_id_missing_none_only(d) == "claim_id" \notin DOMAIN d

\* line 174 (claims_actions.py) and line 61 (get_claim.py): if not claim_id
claim_id_missing(d) == ~Truthy(Get(d, "claim_id", JsonNull))

\* a store call as the table sees it: the version a lookup returned or a
\* demotion or put is for, -1 when the lookup returned none
Call(op, ok, version) == [op |-> op, ok |-> ok, version |-> version]

Issue(p, call) == calls' = [calls EXCEPT ![p] = Append(@, call)]

\* lines 163-175: the invocation starts; a missing claim_id ends it
Invoke(w, d, max) ==
    /\ pc[w] = "idle"
    /\ writes < max
    /\ writes' = writes + 1
    /\ \E ev \in EventHeaders : event' = [event EXCEPT ![w] = ev]
    /\ repeat_of' = [repeat_of EXCEPT ![w] =
                        IF d = data[w] /\ response[w] # NoResponse
                                       /\ response[w].httpStatusCode = 200
                          THEN response[w].version ELSE 0]
    /\ data' = [data EXCEPT ![w] = d]
    /\ existing_claim' = [existing_claim EXCEPT ![w] = None]
    /\ item' = [item EXCEPT ![w] = None]
    /\ calls' = [calls EXCEPT ![w] = <<>>]
    /\ IF claim_id_missing(d)
         THEN Caught(w, "Missing required claim_id field")
         ELSE /\ pc' = [pc EXCEPT ![w] = "query"]
              /\ response' = [response EXCEPT ![w] = NoResponse]
    /\ UNCHANGED <<store, now, timestamp, all_versions, reads, routevars, adaptvars>>

\* Query that goes on to the build without the demotion
Query_skips_demote(w) ==
    /\ pc[w] = "query"
    /\ LET found == FirstItem(LatestRows(data[w]["claim_id"]))
       IN  /\ existing_claim' = [existing_claim EXCEPT ![w] = found]
           /\ Issue(w, Call("query", TRUE, IF found # None THEN found.version ELSE -1))
    /\ pc' = [pc EXCEPT ![w] = "stamp"]
    /\ now' = now + 1
    /\ UNCHANGED <<store, data, timestamp, item, response, writes, event,
                   all_versions, reads, routevars, adaptvars, repeat_of>>

\* lines 179-189: the lookup of the latest version.  The clock has a
\* resolution of a microsecond and a store call takes longer, so the clock
\* is past every timestamp taken before the call was issued.
Query(w) ==
    /\ pc[w] = "query"
    /\ LET found == FirstItem(LatestRows(data[w]["claim_id"]))
       IN  /\ existing_claim' = [existing_claim EXCEPT ![w] = found]
           /\ pc' = [pc EXCEPT ![w] = IF found # None THEN "update" ELSE "stamp"]
           /\ Issue(w, Call("query", TRUE, IF found # None THEN found.version ELSE -1))
    /\ now' = now + 1
    /\ UNCHANGED <<store, data, timestamp, item, response, writes, event,
                   all_versions, reads, routevars, adaptvars, repeat_of>>

\* lines 179-186 raising, caught at lines 202-204
QueryFails(w) ==
    /\ pc[w] = "query"
    /\ existing_claim' = [existing_claim EXCEPT ![w] = None]
    /\ pc' = [pc EXCEPT ![w] = "stamp"]
    /\ now' = now + 1
    /\ Issue(w, Call("query", FALSE, -1))
    /\ UNCHANGED <<store, data, timestamp, item, response, writes, event,
                   all_versions, reads, routevars, adaptvars, repeat_of>>

\* lines 192-201: the demotion of the version the lookup returned
UpdateItem(w) ==
    /\ pc[w] = "update"
    /\ LET key == <<data[w]["claim_id"], existing_claim[w].version>>
       IN  store' = [store EXCEPT ![key].is_latest = "false"]
    /\ pc' = [pc EXCEPT ![w] = "stamp"]
    /\ Issue(w, Call("update_item", TRUE, existing_claim[w].version))
    /\ UNCHANGED <<now, data, existing_claim, timestamp, item, response, writes,
                   event, all_versions, reads, routevars, adaptvars, repeat_of>>

\* lines 192-201 raising, caught at lines 202-204
UpdateItemFails(w) ==
    /\ pc[w] = "update"
    /\ existing_claim' = [existing_claim EXCEPT ![w] = None]
    /\ pc' = [pc EXCEPT ![w] = "stamp"]
    /\ Issue(w, Call("update_item", FALSE, existing_claim[w].version))
    /\ UNCHANGED <<store, now, data, timestamp, item, response, writes, event,
                   all_versions, reads, routevars, adaptvars, repeat_of>>

\* whether building the item raises AttributeError: .get or .items of a
\* section that is not a dict (lines 212-218, 263-264, 277, 295)
BuildRaises(existing, d) ==
    \/ ~IsDict(Get(d, "version_summary", EmptyDict))
    \/ /\ existing # None
       /\ \E k \in {"documents", "claim_details", "vehicle_info"} :
             \/ ~IsDict(Get(existing, k, EmptyDict))
             \/ ~IsDict(Get(d, k, EmptyDict))

\* lines 207-301: the timestamp is read and the item is built
BuildItem(w) ==
    /\ pc[w] = "stamp"
    /\ timestamp' = [timestamp EXCEPT ![w] = now]
    /\ IF BuildRaises(existing_claim[w], data[w])
         THEN /\ Caught(w, "object has no attribute 'get'")
              /\ item' = item
         ELSE /\ IF existing_claim[w] # None
                   THEN \E docs \in merged_docs(existing_claim[w], data[w]) :
                           item' = [item EXCEPT ![w] =
                                      MergedItem(existing_claim[w], data[w], now, docs)]
                   ELSE item' = [item EXCEPT ![w] = NewItem(data[w], now)]
              /\ pc' = [pc EXCEPT ![w] = "put"]
              /\ response' = response
    /\ UNCHANGED <<store, now, data, existing_claim, writes, event, calls,
                   all_versions, reads, routevars, adaptvars, repeat_of>>

\* lines 305-344: the put and the success envelope
PutItem(w) ==
    /\ pc[w] = "put"
    /\ IF HasFloat(item[w])
         THEN /\ Caught(w, "Float types are not supported")
              /\ store' = store
              /\ Issue(w, Call("put_item", FALSE, item[w].version))
         ELSE /\ LET key == <<item[w].claim_id, item[w].version>>
                 IN  store' = [k \in DOMAIN store \cup {key} |->
                                 IF k = key THEN item[w] ELSE store[k]]
              /\ response' = [response EXCEPT ![w] = SuccessResponse(event[w], item[w])]
              /\ pc' = [pc EXCEPT ![w] = "idle"]
              /\ Issue(w, Call("put_item", TRUE, item[w].version))
    /\ UNCHANGED <<now, data, existing_claim, timestamp, item, writes, event,
                   all_versions, reads, routevars, adaptvars, repeat_of>>

\* line 305 raising, caught at lines 346-361
PutItemFails(w) ==
    /\ pc[w] = "put"
    /\ Caught(w, "put_item failed")
    /\ Issue(w, Call("put_item", FALSE, item[w].version))
    /\ UNCHANGED <<store, now, data, existing_claim, timestamp, item, writes,
                   event, all_versions, reads, routevars, adaptvars, repeat_of>>

Step(w) ==
    \/ Query(w)
    \/ QueryFails(w)
    \/ UpdateItem(w)
    \/ UpdateItemFails(w)
    \/ BuildItem(w)
    \/ PutItem(w)
    \/ PutItemFails(w)

\* concurrent invocations
Next ==
    \/ \E w \in Writers, d \in RaceData : Invoke(w, d, MaxWrites)
    \/ \E w \in Writers : Step(w)

Spec == Init /\ [][Next]_vars

\* invocations one after another
NextSeq ==
    \/ \E d \in SeqData : Invoke(SeqWriter, d, MaxSeqWrites)
    \/ Step(SeqWriter)

SpecSeq == Init /\ [][NextSeq]_vars

\* the updates a client submits again and again
RepeatData ==
    { Update(("claim_details" :> (("policy_number" :> "P1")
                                   @@ ("reported_within_thirty_days" :> PyTrue)))
             @@ ("documents" :> ("current_uploaded_documents" :> <<"a.pdf", "a.pdf">>))),
      Update(("claim_details" :> (("policy_number" :> "P2")
                                   @@ ("coverage_amount" :> Float15)
                                   @@ ("reported_within_thirty_days" :> PyFalse)))
             @@ ("vehicle_info" :> ("vin" :> "V1"))
             @@ ("documents" :> (("current_uploaded_documents" :> <<"b.png">>)
                                  @@ ("required_documents" :> <<"police_report">>)))
             @@ ("version_summary" :> ("claim_status" :> "APPROVED"))),
      Update(("claim_details" :> ("policy_number" :> ""))
             @@ ("vehicle_info" :> ("vin" :> ""))),
      Update(EmptyDict) }

\* an invocation of the client that repeats its updates
RepeatInvoke(d) == Invoke(SeqWriter, d, MaxRepeatWrites)

\* invocations one after another, three and more
NextRepeat ==
    \/ \E d \in RepeatData : RepeatInvoke(d)
    \/ Step(SeqWriter)

SpecRepeat == Init /\ [][NextRepeat]_vars

-----------------------------------------------------------------------------
(* handler() of get_claim.py, one action per store call *)

\* a query returns its items in ascending order of the sort key
SortedRows(rows) ==
    CHOOSE l \in ListOfSet(rows) :
        \A i, j \in DOMAIN l : i < j => l[i].version < l[j].version

\* lines 109-113: a version as the history shows it
HistoryEntry(v) ==
    [version |-> v.version,
     version_summary |-> Get(v, "version_summary", EmptyDict),
     documents |-> Get(Get(v, "documents", EmptyDict),
                       "current_uploaded_documents", <<>>)]

\* lines 108-114
claim_history(versions, existing) ==
    SelectSeq([i \in DOMAIN versions |-> versions[i]],
              LAMBDA v : v.version # existing.version)

\* lines 96-117 and 130-143: the envelope of a claim that was found
FoundResponse(ev, d, existing, versions) ==
    [httpStatusCode |-> 200,
     claim_exists |-> TRUE,
     claim_id |-> d["claim_id"],
     claim_data |-> [status |-> existing.status,
                     version_summary |-> Get(existing, "version_summary", EmptyDict),
                     claim_details |-> Get(existing, "claim_details", EmptyDict),
                     documents |-> Get(existing, "documents", EmptyDict)],
     claim_history |-> LET h == claim_history(versions, existing)
                       IN  [i \in DOMAIN h |-> HistoryEntry(h[i])]] @@ Echo(ev)

\* NotFoundResponse as the error envelope
NotFoundResponse_error(ev, d) == ErrorResponse("Claim not found")

\* lines 119-127 and 130-143: the envelope of a claim that was not found
NotFoundResponse(ev, d) ==
    [httpStatusCode |-> 200, claim_exists |-> FALSE, claim_id |-> d["claim_id"]]
        @@ Echo(ev)

\* lines 50-62: the invocation starts, while no other invocation runs
ReadInvoke(r, d) ==
    /\ \A p \in Procs : pc[p] = "idle"
    /\ reads < MaxReads
    /\ reads' = reads + 1
    /\ \E ev \in EventHeaders : event' = [event EXCEPT ![r] = ev]
    /\ data' = [data EXCEPT ![r] = d]
    /\ existing_claim' = [existing_claim EXCEPT ![r] = None]
    /\ all_versions' = [all_versions EXCEPT ![r] = <<>>]
    /\ calls' = [calls EXCEPT ![r] = <<>>]
    /\ IF claim_id_missing(d)
         THEN Caught(r, "Missing required claim_id field")
         ELSE /\ pc' = [pc EXCEPT ![r] = "query"]
              /\ response' = [response EXCEPT ![r] = NoResponse]
    /\ UNCHANGED <<store, now, timestamp, item, writes, routevars, adaptvars, repeat_of>>

\* lines 66-74
ReadQuery(r) ==
    /\ pc[r] = "query"
    /\ existing_claim' = [existing_claim EXCEPT ![r] =
                            FirstItem(LatestRows(data[r]["claim_id"]))]
    /\ pc' = [pc EXCEPT ![r] = "query_all"]
    /\ Issue(r, Call("query", TRUE, -1))
    /\ UNCHANGED <<store, now, data, timestamp, item, response, writes, event,
                   all_versions, reads, routevars, adaptvars, repeat_of>>

\* lines 66-73 raising, caught at lines 75-77
ReadQueryFails(r) ==
    /\ pc[r] = "query"
    /\ existing_claim' = [existing_claim EXCEPT ![r] = None]
    /\ pc' = [pc EXCEPT ![r] = "query_all"]
    /\ Issue(r, Call("query", FALSE, -1))
    /\ UNCHANGED <<store, now, data, timestamp, item, response, writes, event,
                   all_versions, reads, routevars, adaptvars, repeat_of>>

\* lines 80-90
ReadQueryAll(r) ==
    /\ pc[r] = "query_all"
    /\ all_versions' = [all_versions EXCEPT ![r] =
                          SortedRows(Versions(data[r]["claim_id"]))]
    /\ pc' = [pc EXCEPT ![r] = "respond"]
    /\ Issue(r, Call("query", TRUE, -2))
    /\ UNCHANGED <<store, now, data, existing_claim, timestamp, item, response,
                   writes, event, reads, routevars, adaptvars, repeat_of>>

\* lines 83-88 raising, caught at lines 91-92
ReadQueryAllFails(r) ==
    /\ pc[r] = "query_all"
    /\ all_versions' = [all_versions EXCEPT ![r] = <<>>]
    /\ pc' = [pc EXCEPT ![r] = "respond"]
    /\ Issue(r, Call("query", FALSE, -2))
    /\ UNCHANGED <<store, now, data, existing_claim, timestamp, item, response,
                   writes, event, reads, routevars, adaptvars, repeat_of>>

\* whether line 112 raises AttributeError for a version of the history
RespondRaises(existing, versions) ==
    /\ existing # None
    /\ \E i \in DOMAIN versions :
          /\ versions[i].version # existing.version
          /\ ~IsDict(Get(versions[i], "documents", EmptyDict))

\* lines 94-148
ReadRespond(r) ==
    /\ pc[r] = "respond"
    /\ IF RespondRaises(existing_claim[r], all_versions[r])
         THEN Caught(r, "object has no attribute 'get'")
         ELSE /\ response' = [response EXCEPT ![r] =
                    IF existing_claim[r] # None
                      THEN FoundResponse(event[r], data[r], existing_claim[r],
                                         all_versions[r])
                      ELSE NotFoundResponse(event[r], data[r])]
              /\ pc' = [pc EXCEPT ![r] = "idle"]
    /\ UNCHANGED <<store, now, data, existing_claim, timestamp, item, writes,
                   event, calls, all_versions, reads, routevars, adaptvars, repeat_of>>

ReadStep(r) ==
    \/ ReadQuery(r)
    \/ ReadQueryFails(r)
    \/ ReadQueryAll(r)
    \/ ReadQueryAllFails(r)
    \/ ReadRespond(r)

\* the updates the writer submits while reads are under way
ReadWrites ==
    RaceData \cup { Update("documents" :> PyList), "claim_id" :> "", EmptyDict }

\* a write invocation that starts while no read runs
WriteInvoke(d) ==
    /\ pc[Reader] = "idle"
    /\ Invoke(SeqWriter, d, MaxSeqWrites)

\* writes and reads of one client, one after another
NextRead ==
    \/ \E d \in ReadWrites : WriteInvoke(d)
    \/ Step(SeqWriter)
    \/ \E d \in ReadData : ReadInvoke(Reader, d)
    \/ ReadStep(Reader)

SpecRead == Init /\ [][NextRead]_vars

-----------------------------------------------------------------------------
(* The routing handler's steps *)

\* lines 32-35 and 206-209: the invocation starts; an event without Records
\* raises KeyError, caught at line 277
RouteInvoke(ev) ==
    /\ route_pc = "idle"
    /\ routes < MaxRoutes
    /\ routes' = routes + 1
    /\ route_event' = ev
    /\ retry_attempt' = 0
    /\ response_text' = ""
    /\ total_delay' = 0
    /\ attempts' = <<>>
    /\ waits' = <<>>
    /\ IF ev = "<no Records>"
         THEN /\ route_response' = RouteError("'Records'")
              /\ route_pc' = "idle"
         ELSE /\ route_response' = NoResponse
              /\ route_pc' = "invoke"
    /\ UNCHANGED <<claimvars, adaptvars>>

\* lines 213-232 and 265-274: invoke_agent and its stream succeed, the loop
\* is left and the handler returns
AgentSucceeds(text) ==
    /\ route_pc = "invoke"
    /\ attempts' = Append(attempts, "ok")
    /\ response_text' = text
    /\ route_response' = RouteOk(route_event, text)
    /\ route_pc' = "idle"
    /\ UNCHANGED <<route_event, retry_attempt, total_delay, waits, routes>>
    /\ UNCHANGED <<claimvars, adaptvars>>

\* lines 234-263: invoke_agent or its stream raises; after the last attempt
\* the loop ends and the handler returns (lines 265-274)
AgentFails(error_str) ==
    /\ route_pc = "invoke"
    /\ attempts' = Append(attempts, error_str)
    /\ IF ShouldSleep(retry_attempt)
         THEN /\ \E jitter \in Jitter :
                    total_delay' = Delay(retry_attempt, is_throttling(error_str), jitter)
              /\ route_pc' = "sleep"
              /\ UNCHANGED <<response_text, route_response>>
         ELSE /\ response_text' = "Error after 2 attempts"
              /\ route_response' = RouteOk(route_event, "Error after 2 attempts")
              /\ route_pc' = "idle"
              /\ UNCHANGED total_delay
    /\ UNCHANGED <<route_event, retry_attempt, waits, routes>>
    /\ UNCHANGED <<claimvars, adaptvars>>

\* line 259 and the next turn of the loop of line 211; when the range is
\* exhausted the handler returns (lines 265-274)
Sleep ==
    /\ route_pc = "sleep"
    /\ waits' = Append(waits, [after |-> retry_attempt, seconds100 |-> total_delay,
                                throttling |-> is_throttling(attempts[Len(attempts)])])
    /\ retry_attempt' = retry_attempt + 1
    /\ IF retry_attempt + 1 < max_retries
         THEN /\ route_pc' = "invoke"
              /\ UNCHANGED route_response
         ELSE /\ route_pc' = "idle"
              /\ route_response' = RouteOk(route_event, response_text)
    /\ UNCHANGED <<route_event, response_text, total_delay, attempts, routes>>
    /\ UNCHANGED <<claimvars, adaptvars>>

NextRoute ==
    \/ \E ev \in RouteEvents : RouteInvoke(ev)
    \/ \E text \in {"", "Claim processed"} : AgentSucceeds(text)
    \/ \E error_str \in AgentErrors : AgentFails(error_str)
    \/ Sleep

SpecRoute == Init /\ [][NextRoute]_vars

\* the runtime runs the handler to its return: invoke_agent returns or
\* raises within the timeouts of lines 22-29, and time.sleep returns
SpecRouteFair == SpecRoute /\ WF_vars(NextRoute)

-----------------------------------------------------------------------------
(* The adapter's step *)

\* line 170: data = extract_properties(event), for the event that arrives
Extract(props) ==
    /\ properties = <<>>
    /\ properties' = props
    /\ extracted' = extract_properties(props)
    /\ UNCHANGED <<claimvars, routevars>>

NextAdapt == \E props \in PropertyLists : Extract(props)

SpecAdapt == Init /\ [][NextAdapt]_vars

-----------------------------------------------------------------------------
(* Properties *)

Returned(w) == pc[w] = "idle" /\ response[w] # NoResponse

Succeeded(w) == Returned(w) /\ response[w].httpStatusCode = 200

\* the item of w has been built on the merge path
Merged(w) == item[w] # None /\ existing_claim[w] # None

UploadedDocs(row) ==
    Elems(Get(Get(row, "documents", EmptyDict), "current_uploaded_documents", <<>>))

NonEmptyAt(dict, k) == k \in DOMAIN dict /\ Truthy(dict[k])

\* C1: in every state of the table a reader can observe, a claim that has
\* at least one version row has exactly one row with is_latest = "true".
C1_ExactlyOneLatest ==
    Versions(ClaimId) # {} => Cardinality(LatestRows(ClaimId)) = 1

\* C2: when write invocations for one claim run one after another, then
\* after each of them has returned the claim has exactly one latest row
\* (if it has a row at all), and after a successful one that row is the
\* version this invocation wrote.
C2_MonotonicLatest ==
    (Returned(SeqWriter) /\ "claim_id" \in DOMAIN data[SeqWriter]) =>
        /\ Versions(ClaimId) # {} => Cardinality(LatestRows(ClaimId)) = 1
        /\ Succeeded(SeqWriter) =>
              \A r \in LatestRows(ClaimId) : r.version = response[SeqWriter].version

\* C3: once a version holds a non-empty value for a static claim_details
\* field, every version of the claim with a later token holds the same value.
C3_StaticWriteOnce ==
    \A r1, r2 \in Versions(ClaimId) :
        r1.version < r2.version =>
            \A f \in static_fields :
                NonEmptyAt(r1.claim_details, f) =>
                    /\ f \in DOMAIN r2.claim_details
                    /\ r2.claim_details[f] = r1.claim_details[f]

\* C4: the uploaded documents of a version are a subset of those of every
\* version of the claim with a later token.
C4_DocumentsNeverShrink ==
    \A r1, r2 \in Versions(ClaimId) :
        r1.version < r2.version => UploadedDocs(r1) \subseteq UploadedDocs(r2)

\* C5: a stored row is never deleted and never changes, except that its
\* is_latest goes from "true" to "false"; no put overwrites an existing row.
C5_RowsImmutable ==
    [][\A k \in DOMAIN store :
          /\ k \in DOMAIN store'
          /\ \/ store'[k] = store[k]
             \/ /\ store[k].is_latest = "true"
                /\ store'[k] = [store[k] EXCEPT !.is_latest = "false"]]_vars

\* C6: the token of every version that is put sorts strictly after every
\* token already stored for the claim.
C6_TokensIncrease ==
    [][\A w \in Writers :
          (pc[w] = "put" /\ Succeeded(w)') =>
              \A k \in DOMAIN store :
                  k[1] = item[w].claim_id => k[2] < item[w].version]_vars

\* what a value is stored as: a float becomes the decimal of the same digits
Stored(v) == IF v = Float15 THEN Dec15 ELSE v

StaticRule(existing, incoming, merged, k) ==
    /\ NonEmptyAt(existing, k) =>
          k \in DOMAIN merged /\ merged[k] = existing[k]
    /\ (~NonEmptyAt(existing, k) /\ NonEmptyAt(incoming, k)) =>
          k \in DOMAIN merged /\ merged[k] = Stored(incoming[k])

\* C7: in a merge, a static claim_details field and a vehicle_info field
\* keep the existing value when it is non-empty, whatever comes in, and take
\* the incoming value when the existing one is empty or absent and the
\* incoming one is non-empty.  Empty is what the handler tests: None, "",
\* false and zero.  "Takes the incoming value" is read up to the decimal
\* conversion of a float.
C7_StaticFieldsMerge ==
    \A w \in Writers :
        Merged(w) =>
            /\ \A k \in static_fields :
                  StaticRule(existing_claim[w].claim_details,
                             Get(data[w], "claim_details", EmptyDict),
                             item[w].claim_details, k)
            /\ \A k \in DOMAIN existing_claim[w].vehicle_info
                        \cup DOMAIN Get(data[w], "vehicle_info", EmptyDict) :
                  LET incoming == Get(data[w], "vehicle_info", EmptyDict)
                  IN  /\ NonEmptyAt(existing_claim[w].vehicle_info, k) =>
                            /\ k \in DOMAIN item[w].vehicle_info
                            /\ item[w].vehicle_info[k] = existing_claim[w].vehicle_info[k]
                      /\ (~NonEmptyAt(existing_claim[w].vehicle_info, k)
                             /\ NonEmptyAt(incoming, k)) =>
                            /\ k \in DOMAIN item[w].vehicle_info
                            /\ item[w].vehicle_info[k] = incoming[k]

\* existing policy_number P1, incoming P2, merged P1
C7_Witness ==
    /\ Merged(SeqWriter)
    /\ NonEmptyAt(existing_claim[SeqWriter].claim_details, "policy_number")
    /\ existing_claim[SeqWriter].claim_details["policy_number"] = "P1"
    /\ NonEmptyAt(Get(data[SeqWriter], "claim_details", EmptyDict), "policy_number")
    /\ data[SeqWriter]["claim_details"]["policy_number"] = "P2"
    /\ item[SeqWriter].claim_details["policy_number"] = "P1"

\* C8: in a merge, current_uploaded_documents of the new version holds
\* exactly the elements of the existing list and of the incoming list, each
\* of them once.
C8_DocumentUnion ==
    \A w \in Writers :
        Merged(w) =>
            LET docs == item[w].documents.current_uploaded_documents
            IN  /\ Elems(docs) =
                      UploadedDocs(existing_claim[w]) \cup UploadedDocs(data[w])
                /\ \A i, j \in DOMAIN docs : docs[i] = docs[j] => i = j

\* existing [a.pdf], incoming [a.pdf, b.png], merged a 2-element list
C8_Witness ==
    /\ Merged(SeqWriter)
    /\ UploadedDocs(existing_claim[SeqWriter]) = {"a.pdf"}
    /\ Get(data[SeqWriter], "documents", EmptyDict)
          = ("current_uploaded_documents" :> <<"a.pdf", "b.png">>)
    /\ Len(item[SeqWriter].documents.current_uploaded_documents) = 2

\* the row a successful invocation of w has written
Written(w) == store[<<response[w].claim_id, response[w].version>>]

\* C9: the status of the version an invocation writes is the incoming
\* version_summary.claim_status when that key is present and PENDING when it
\* is absent, whatever the status of the existing version.
C9_StatusFromIncoming ==
    Succeeded(SeqWriter) =>
        LET d == data[SeqWriter]
        IN  Written(SeqWriter).status =
               IF /\ "version_summary" \in DOMAIN d
                  /\ "claim_status" \in DOMAIN d["version_summary"]
                 THEN d["version_summary"]["claim_status"]
                 ELSE "PENDING"

\* existing status PENDING, incoming claim_status APPROVED, written APPROVED
C9_Witness ==
    /\ Succeeded(SeqWriter)
    /\ existing_claim[SeqWriter] # None
    /\ existing_claim[SeqWriter].status = "PENDING"
    /\ Get(data[SeqWriter], "version_summary", EmptyDict)
          = ("claim_status" :> "APPROVED")
    /\ Written(SeqWriter).status = "APPROVED"

\* C10: the version written for a claim that had no stored version holds
\* the incoming claim_details, vehicle_info, documents and version_summary
\* as they came in, an empty mapping for each that is absent.
C10_NewClaimVerbatim ==
    (Succeeded(SeqWriter) /\ Cardinality(Versions(ClaimId)) = 1) =>
        LET d == data[SeqWriter]
            row == Written(SeqWriter)
            Incoming(k) == IF k \in DOMAIN d THEN d[k] ELSE EmptyDict
        IN  /\ row.claim_details = Incoming("claim_details")
            /\ row.vehicle_info = Incoming("vehicle_info")
            /\ row.documents = Incoming("documents")
            /\ row.version_summary = Incoming("version_summary")

\* a first version stored with its duplicate document and nothing added
C10_Witness ==
    /\ Succeeded(SeqWriter)
    /\ Cardinality(Versions(ClaimId)) = 1
    /\ Written(SeqWriter).documents
          = ("current_uploaded_documents" :> <<"b.png", "b.png">>)
    /\ Written(SeqWriter).claim_details = EmptyDict

-----------------------------------------------------------------------------
(* Properties of the read handler and of the error paths *)

\* the handler of p has returned the response it holds and is not running
Finished(p) == pc[p] = "idle" /\ response[p] # NoResponse

\* the store calls of the running or last invocation of p, by operation
CallsOf(p, op) == {i \in DOMAIN calls[p] : calls[p][i].op = op}
FailedCalls(p, op) == {i \in CallsOf(p, op) : ~calls[p][i].ok}

\* the properties d carry no claim_id, or an empty one
NoClaimId(d) == "claim_id" \notin DOMAIN d \/ d["claim_id"] = ""

C12_LookupFindsWrittenClaim ==
    /\ (/\ pc[Reader] \in {"query_all", "respond"}
        /\ Versions(data[Reader]["claim_id"]) # {})
       => existing_claim[Reader] # None
    /\ (/\ pc[SeqWriter] \in {"stamp", "put"}
        /\ Versions(data[SeqWriter]["claim_id"]) # {})
       => existing_claim[SeqWriter] # None

\* C13: when the lookup of a write fails, the write is aborted: no put is
\* issued, and the invocation returns the error envelope.
C13_LookupFailurePropagates ==
    \A w \in Writers :
        FailedCalls(w, "query") # {}
        => /\ CallsOf(w, "put_item") = {}
           /\ pc[w] \notin {"stamp", "put"}
           /\ Finished(w) => response[w].httpStatusCode = 500

\* C14: a write whose update_item or put_item failed returns the 500
\* envelope, never the 200 envelope.
C14_PersistenceFailureSurfaces ==
    \A w \in Writers :
        (/\ Finished(w)
         /\ FailedCalls(w, "update_item") \cup FailedCalls(w, "put_item") # {})
        => response[w].httpStatusCode = 500

\* C15: every response of the write and the read handler, the error envelope
\* included, echoes actionGroup, apiPath and httpMethod of the event and
\* returns its session attributes; the status is 200, or 500 with the error
\* message.
C15_EnvelopeEchoesEvent ==
    \A p \in Procs :
        Finished(p)
        => /\ response[p].httpStatusCode \in {200, 500}
           /\ response[p].httpStatusCode = 500 => "error" \in DOMAIN response[p]
           /\ \A k \in {"actionGroup", "apiPath", "httpMethod"} :
                 k \in DOMAIN response[p] /\ response[p][k] = event[p][k]
           /\ \A k \in {"sessionAttributes", "promptSessionAttributes"} :
                 /\ k \in DOMAIN response[p]
                 /\ response[p][k] = Get(event[p], k, EmptyDict)

\* C16: no error escapes the write or the read handler: an invocation is
\* either at one of its steps or has returned an envelope with status 200 or
\* 500, whatever its update and whatever the outcome of its store calls.
C16_NoErrorEscapes ==
    \A p \in Procs :
        /\ pc[p] \in {"idle", "query", "update", "stamp", "put", "query_all", "respond"}
        /\ (pc[p] = "idle" /\ event[p] # EmptyDict)
           => /\ response[p] # NoResponse
              /\ response[p].httpStatusCode \in {200, 500}

\* a read has returned the error envelope for the AttributeError raised while
\* the history was built, after a write whose lookup had failed
C16_Witness ==
    /\ Finished(Reader)
    /\ response[Reader] = ErrorResponse("object has no attribute 'get'")
    /\ Finished(SeqWriter)
    /\ FailedCalls(SeqWriter, "query") # {}

NonLatestHistory(claim_id) ==
    {HistoryEntry(row) : row \in {v \in Versions(claim_id) : v.is_latest # "true"}}

\* C18: when a read returns a claim that exists, its claim_history holds
\* one entry for each stored row of the claim that is not latest and no
\* other entry.  (No write runs during a read, so the table at the return
\* is the table that was read.)
C18_HistoryIsNonLatest ==
    [][ (/\ pc[Reader] = "respond"
         /\ pc'[Reader] = "idle"
         /\ "claim_history" \in DOMAIN response'[Reader])
        => LET h == response'[Reader].claim_history
           IN  /\ Elems(h) = NonLatestHistory(data[Reader]["claim_id"])
               /\ Len(h) = Cardinality(NonLatestHistory(data[Reader]["claim_id"]))
      ]_vars

\* C20: no float reaches put_item: the item of a write that is about to put
\* holds no float in claim_details or vehicle_info.
C20_NoFloatReachesStore ==
    \A w \in Writers : pc[w] = "put" => ~HasFloat(item[w])

-----------------------------------------------------------------------------
(* Properties of the routing handler *)

\* the attempts made so far that failed
FailedAttempts == {i \in DOMAIN attempts : attempts[i] # "ok"}

RetrySafe ==
    \* at most max_retries invocations of the agent
    /\ Len(attempts) <= max_retries
    \* nothing follows a successful attempt
    /\ \A i \in DOMAIN attempts : attempts[i] = "ok" => i = Len(attempts)
    \* the i-th wait follows the i-th attempt, which failed
    /\ Len(waits) <= Len(attempts)
    /\ \A i \in DOMAIN waits :
          /\ i \in FailedAttempts
          /\ waits[i].after = i - 1
          /\ waits[i].throttling = is_throttling(attempts[i])
          \* a wait after throttling is longer than a wait after any other
          \* error at the same attempt
          /\ \A jitter \in Jitter :
                IF waits[i].throttling
                  THEN waits[i].seconds100 > Delay(i - 1, FALSE, jitter)
                  ELSE waits[i].seconds100 < Delay(i - 1, TRUE, jitter)
    \* a wait is followed by an attempt: none after the last attempt
    /\ route_pc = "sleep" => Len(attempts) < max_retries
    /\ (route_pc = "idle" /\ attempts # <<>>) => Len(waits) = Len(attempts) - 1
    \* a returned invocation holds its response
    /\ (route_pc = "idle" /\ routes > 0) => route_response # NoResponse

\* C19: the retry loop is bounded: at most max_retries invocations of the
\* agent, a wait only between a failed attempt and the next attempt, no
\* attempt after a success, a longer wait after a throttling error than
\* after any other error at the same attempt, and every invocation of the
\* handler returns.
C19_BoundedRetry ==
    /\ []RetrySafe
    /\ (route_pc # "idle") ~> (route_pc = "idle")

\* both attempts failed, the first one by throttling, with one wait between
C19_Witness ==
    /\ route_pc = "idle"
    /\ Len(attempts) = max_retries
    /\ FailedAttempts = DOMAIN attempts
    /\ Len(waits) = 1
    /\ waits[1].throttling
    /\ route_response.statusCode = 200

-----------------------------------------------------------------------------
(* Properties of the stored versions and of the merge *)

\* C21: the status of every stored version is PENDING, APPROVED or DENIED.
C21_StatusEnumerated ==
    \A k \in DOMAIN store : store[k].status \in {"PENDING", "APPROVED", "DENIED"}

\* the call that a step of w has just added to its calls
Issued(w) == calls'[w] # calls[w] /\ calls'[w] # <<>>
LastCall(w) == calls'[w][Len(calls'[w])]

\* the first call of w is a lookup that returned a version
LookupFound(w) ==
    /\ calls'[w][1].op = "query"
    /\ calls'[w][1].ok
    /\ calls'[w][1].version # -1

\* C22: a demotion is issued only as the second call of an invocation, right
\* after a lookup that returned a version, and it is for the claim_id of
\* the update and that version: it changes is_latest of that row and nothing
\* else, or nothing when it fails.  A put is the third call, after the
\* demotion, when the lookup returned a version, and the second call, with
\* no demotion, when it returned none or failed.
C22_DemoteBeforePut ==
    [][ \A w \in Writers :
           Issued(w) =>
             /\ LastCall(w).op = "update_item" =>
                   /\ Len(calls'[w]) = 2
                   /\ LookupFound(w)
                   /\ LastCall(w).version = calls'[w][1].version
                   /\ LET key == <<data[w]["claim_id"], LastCall(w).version>>
                      IN  /\ key \in DOMAIN store
                          /\ store' = IF LastCall(w).ok
                                        THEN [store EXCEPT ![key].is_latest = "false"]
                                        ELSE store
             /\ LastCall(w).op = "put_item" =>
                   IF LookupFound(w)
                     THEN /\ Len(calls'[w]) = 3
                          /\ calls'[w][2].op = "update_item"
                     ELSE Len(calls'[w]) = 2
      ]_vars

\* a write has looked up version 1, demoted it and put its item
C22_Witness ==
    /\ Finished(SeqWriter)
    /\ Len(calls[SeqWriter]) = 3
    /\ calls[SeqWriter][1] = Call("query", TRUE, 1)
    /\ calls[SeqWriter][2] = Call("update_item", TRUE, 1)
    /\ calls[SeqWriter][3].op = "put_item"
    /\ calls[SeqWriter][3].ok
    /\ store[<<ClaimId, 1>>].is_latest = "false"

\* the keys of section that the update leaves out or gives an empty value
NotSupplied(existing, d, section) ==
    {k \in DOMAIN Get(existing, section, EmptyDict) :
        \/ k \notin DOMAIN Get(d, section, EmptyDict)
        \/ Get(d, section, EmptyDict)[k] \in {"", JsonNull, PyFalse, PyZero}}

\* C23: in a merge, a claim_details or vehicle_info key of the existing
\* version that the update leaves out or gives an empty value keeps its
\* value, and no key of the existing version is missing from the new one.
C23_UnsuppliedKeysKept ==
    \A w \in Writers :
        Merged(w) =>
            \A section \in {"claim_details", "vehicle_info"} :
                /\ DOMAIN Get(existing_claim[w], section, EmptyDict)
                      \subseteq DOMAIN item[w][section]
                /\ \A k \in NotSupplied(existing_claim[w], data[w], section) :
                      item[w][section][k] = existing_claim[w][section][k]

\* a merge into a version with a vin, by an update with an empty vin and no
\* claim_details, has kept the vin
C23_Witness ==
    /\ Merged(SeqWriter)
    /\ pc[SeqWriter] = "put"
    /\ Get(existing_claim[SeqWriter]["vehicle_info"], "vin", "") = "V1"
    /\ data[SeqWriter] = Update("vehicle_info" :> ("vin" :> ""))
    /\ item[SeqWriter]["vehicle_info"]["vin"] = "V1"

\* l holds no element twice
NoDuplicates(l) == Cardinality(Elems(l)) = Len(l)

\* C24: current_uploaded_documents of every stored version holds no element
\* twice.
C24_DocumentsDeduplicated ==
    \A k \in DOMAIN store :
        NoDuplicates(Get(Get(store[k], "documents", EmptyDict),
                         "current_uploaded_documents", <<>>))

\* C25: in a merge, a claim_details field that is not static takes the value
\* the update supplies, false and zero included.
C25_DynamicTakesIncoming ==
    \A w \in Writers :
        Merged(w) =>
            \A k \in DOMAIN Get(data[w], "claim_details", EmptyDict) :
                (k \notin static_fields /\ data[w]["claim_details"][k] \notin {"", JsonNull})
                => /\ k \in DOMAIN item[w]["claim_details"]
                   /\ item[w]["claim_details"][k] =
                         convert_to_decimal(data[w]["claim_details"])[k]

\* the property that gives name its value: the last one of that name
LastOf(name) ==
    properties[CHOOSE i \in DOMAIN properties :
                  /\ properties[i].name = name
                  /\ \A j \in DOMAIN properties : properties[j].name = name => j <= i]

\* C26: the adapter makes a dict of every property of type object and a list
\* of every property of type array, whatever the value string.
C26_ContainersCoerced ==
    \A name \in DOMAIN extracted :
        /\ LastOf(name).type = "object" => IsDict(extracted[name])
        /\ LastOf(name).type = "array" =>
              ~IsDict(extracted[name]) /\ extracted[name].pytype = "list"

\* C27: the adapter makes the boolean true of a property of type boolean
\* whose value is "true" in any case, and the boolean false of any other.
C27_BooleanCoerced ==
    \A name \in DOMAIN extracted :
        LastOf(name).type = "boolean" =>
            extracted[name] =
                PyValue("bool", IF LastOf(name).value \in {"true", "True"}
                                  THEN "true" ELSE "false")

\* C28: a write that returned the 500 envelope has changed nothing: none of
\* its calls that change the table (the demotion, the put) succeeded.
C28_FailedWriteLeavesStore ==
    \A w \in Writers :
        (Finished(w) /\ response[w].httpStatusCode = 500)
        => \A i \in CallsOf(w, "update_item") \cup CallsOf(w, "put_item") :
              ~calls[w][i].ok

\* the content of a version; one without required_documents counts as one
\* with an empty required_documents list
Content(row) ==
    [claim_details |-> row.claim_details,
     vehicle_info |-> row.vehicle_info,
     uploaded |-> UploadedDocs(row),
     required_documents |-> Get(row.documents, "required_documents", <<>>),
     version_summary |-> row.version_summary,
     status |-> row.status]

\* w has written a version by the update that its invocation before had
\* written a version by
Repeated(w) == Succeeded(w) /\ repeat_of[w] # 0

FirstWritten(w) == store[<<response[w].claim_id, repeat_of[w]>>]

\* C29: the version written by the second application of an update has the
\* claim_details, vehicle_info, set of uploaded documents,
\* required_documents, version_summary and status of the version written by
\* the first.
C29_RepeatSameContent ==
    \A w \in Writers : Repeated(w) => Content(Written(w)) = Content(FirstWritten(w))

\* C30: a write that ran alone and whose store calls all succeeded leaves its
\* claim with exactly one latest version, whatever the table held before.
C30_LatestSelfHeals ==
    (/\ Succeeded(SeqWriter)
     /\ \A i \in DOMAIN calls[SeqWriter] : calls[SeqWriter][i].ok)
    => Cardinality(LatestRows(response[SeqWriter].claim_id)) = 1

====
